---- MODULE Spec2Model ----
(***************************************************************************)
(* Model of lib/run_printer.py: the dump-run requester (dump_run,          *)
(* _try_dump_run), the owner-side DumpRunSignalHandler, the consistency    *)
(* check run_consistent_to_job and BackoffSleeper.                         *)
(*                                                                         *)
(* One requester is modelled step by step.  Every other concurrent         *)
(* requester acts on the shared state only by delivering DUMP_SIGNAL to    *)
(* the owner (os.kill, line 152); that is the action other_requester_kill. *)
(* The world's steps are followed until the requester has ended.           *)
(* Durations are in tenths of a time unit (0.2 is 2).                      *)
(*                                                                         *)
(* Spec is the protocol; LiveSpec is Spec with the fairness of the         *)
(* requester's steps.  CheckSpec applies run_consistent_to_job to runs     *)
(* drawn from a bounded set, SleeperSpec calls BackoffSleeper.sleep() on   *)
(* bounded sleepers; in both the protocol's variables stand still.         *)
(***************************************************************************)
EXTENDS Integers, Sequences, FiniteSets, TLC

(* ------------------------------ bounds --------------------------------- *)
\* largest --retries value tried
MaxRetries == 2
\* cap on the attempts of the unbounded loop (retries = 0)
MaxAttempts == 3
\* handler invocations that may overlap (a signal interrupting the handler)
MaxNesting == 2
\* write calls one serialized run takes
NChunks == 2

(* --------------------------- JSON documents ---------------------------- *)
\* JSON null, and a JSON list
JNull == [null |-> TRUE]
JList(s) == [list |-> s]

\* Python's `x or []` on a value that is null or a list
OrEmpty(x) == IF "list" \in DOMAIN x THEN x.list ELSE <<>>

Job(id, ins, outs, c) ==
    [wrapper_arguments |-> [job_id |-> id, inputs |-> ins, outputs |-> outs],
     complete |-> c]

\* The jobs of the build the owner runs: pipelines, their stages, their jobs.
\* A produces x; B consumes x and a source file nobody produces.
BuildJobs ==
    << << << [job_id |-> "A", inputs |-> JNull, outputs |-> JList(<<"x">>)] >>,
          << [job_id |-> "B", inputs |-> JList(<<"x", "src">>), outputs |-> JNull] >> >> >>

JobIds == {"A", "B"}

\* no function is called on its own: the protocol runs
NoCall == [op |-> "none"]

\* B is the job requesters run in: it is running for as long as they are
\* followed, and the scheduler completes the other jobs
Completable == JobIds \ {"B"}

\* lib.litani_report.get_run_data: the run document for the scheduler's state
get_run_data(done) ==
    [pipelines |->
        [p \in DOMAIN BuildJobs |->
            [ci_stages |->
                [s \in DOMAIN BuildJobs[p] |->
                    [jobs |->
                        [j \in DOMAIN BuildJobs[p][s] |->
                            Job(BuildJobs[p][s][j].job_id,
                                BuildJobs[p][s][j].inputs,
                                BuildJobs[p][s][j].outputs,
                                BuildJobs[p][s][j].job_id \in done)]]]]]]

\* json.dumps(run, indent=2) printed to a handle: the text, as the sequence
\* of pieces the writes put into the file; null is the single token
json_dumps(v) ==
    IF v = JNull THEN << JNull >>
    ELSE [i \in 1..NChunks |-> [doc |-> v, part |-> i]]

\* json.load: the value, or JSONDecodeError on a text that is no document
json_load(text) ==
    IF text = << JNull >> THEN [ok |-> TRUE, value |-> JNull]
    ELSE IF /\ Len(text) = NChunks
            /\ "doc" \in DOMAIN text[1]
            /\ text = json_dumps(text[1].doc)
         THEN [ok |-> TRUE, value |-> text[1].doc]
         ELSE [ok |-> FALSE]

Absent == [exists |-> FALSE]
File(text) == [exists |-> TRUE, data |-> text]

\* open + json.load: FileNotFoundError, JSONDecodeError or the value
load_file(f) ==
    IF ~f.exists THEN [ok |-> FALSE]
    ELSE json_load(f.data)

(* ------------------------- run_consistent_to_job ----------------------- *)
RECURSIVE Concat(_)
Concat(ss) == IF ss = <<>> THEN <<>> ELSE Head(ss) \o Concat(Tail(ss))

\* the jobs in the order of the three nested loops (lines 89-91)
ScanOrder(run) ==
    Concat([p \in DOMAIN run.pipelines |->
        Concat([s \in DOMAIN run.pipelines[p].ci_stages |->
            run.pipelines[p].ci_stages[s].jobs])])

\* mutant: an output that has an owner keeps it (the first declaring job
\* stays the owner)
RECURSIVE RecordOutputs_first_wins(_, _, _)
RecordOutputs_first_wins(st, job, outs) ==
    IF outs = <<>> THEN st
    ELSE LET out == Head(outs)
             entry == [job_id |-> job.wrapper_arguments.job_id,
                       complete |-> job.complete]
             m == st.out_to_status
         IN RecordOutputs_first_wins(
                [st EXCEPT
                    !.warnings = IF out \in DOMAIN m THEN @ + 1 ELSE @,
                    !.out_to_status =
                        [o \in DOMAIN m \cup {out} |->
                            IF o \in DOMAIN m THEN m[o] ELSE entry]],
                job, Tail(outs))

\* lines 97-105: record the job as the owner of each of its outputs
RECURSIVE RecordOutputs(_, _, _)
RecordOutputs(st, job, outs) ==
    IF outs = <<>> THEN st
    ELSE LET out == Head(outs)
             entry == [job_id |-> job.wrapper_arguments.job_id,
                       complete |-> job.complete]
             m == st.out_to_status
         IN RecordOutputs(
                [st EXCEPT
                    !.warnings = IF out \in DOMAIN m THEN @ + 1 ELSE @,
                    !.out_to_status =
                        [o \in DOMAIN m \cup {out} |->
                            IF o = out THEN entry ELSE m[o]]],
                job, Tail(outs))

\* lines 92-105: one job of the scan
ScanJob(st, job, job_id) ==
    LET st1 == IF job.wrapper_arguments.job_id = job_id
               THEN [st EXCEPT !.found = TRUE,
                               !.job_ins = OrEmpty(job.wrapper_arguments.inputs)]
               ELSE st
    IN RecordOutputs(st1, job, OrEmpty(job.wrapper_arguments.outputs))

RECURSIVE ScanJobs(_, _, _)
ScanJobs(st, jobs, job_id) ==
    IF jobs = <<>> THEN st
    ELSE ScanJobs(ScanJob(st, Head(jobs), job_id), Tail(jobs), job_id)

\* mutant: an input that has no recorded owner counts as not complete
RECURSIVE CheckInputs_missing_blocks(_, _)
CheckInputs_missing_blocks(m, ins) ==
    IF ins = <<>> THEN "True"
    ELSE IF Head(ins) \notin DOMAIN m \/ ~m[Head(ins)].complete
         THEN "Inconsistent"
         ELSE CheckInputs_missing_blocks(m, Tail(ins))

\* mutant: only the first input is looked at
CheckInputs_first_only(m, ins) ==
    IF ins = <<>> THEN "True"
    ELSE IF Head(ins) \in DOMAIN m /\ ~m[Head(ins)].complete
         THEN "Inconsistent"
         ELSE "True"

\* lines 111-121: the first input whose recorded owner is not complete raises
RECURSIVE CheckInputs(_, _)
CheckInputs(m, ins) ==
    IF ins = <<>> THEN "True"
    ELSE IF Head(ins) \in DOMAIN m /\ ~m[Head(ins)].complete
         THEN "Inconsistent"
         ELSE CheckInputs(m, Tail(ins))

\* mutant: an incomplete reverse-dependency makes the function return False
\* where it raises
run_consistent_to_job_returns_false(run, job_id) ==
    LET st0 == [out_to_status |-> << >>, job_ins |-> << >>,
                found |-> FALSE, warnings |-> 0]
        st == ScanJobs(st0, ScanOrder(run), job_id)
    IN IF ~st.found THEN "JobNotFound"
       ELSE IF CheckInputs(st.out_to_status, st.job_ins) = "True"
            THEN "True" ELSE "False"

\* mutant: the check for found is missing, an unknown job has no inputs
run_consistent_to_job_unfound_passes(run, job_id) ==
    LET st0 == [out_to_status |-> << >>, job_ins |-> << >>,
                found |-> FALSE, warnings |-> 0]
        st == ScanJobs(st0, ScanOrder(run), job_id)
    IN CheckInputs(st.out_to_status, st.job_ins)

\* "True", or the condition InconsistentRunError is raised for: "JobNotFound"
\* (line 109) or "Inconsistent" (line 120)
run_consistent_to_job(run, job_id) ==
    LET st0 == [out_to_status |-> << >>, job_ins |-> << >>,
                found |-> FALSE, warnings |-> 0]
        st == ScanJobs(st0, ScanOrder(run), job_id)
    IN IF ~st.found THEN "JobNotFound"
       ELSE CheckInputs(st.out_to_status, st.job_ins)

\* os.getenv(ENV_VAR_JOB_ID): unset, or set to a string
NoEnv == [set |-> FALSE]
Env(s) == [set |-> TRUE, val |-> s]

\* mutant: the partial is built although the variable is unset, and checks
\* the run for the job id None
get_run_checker_checks_unset(env, run) ==
    IF env.set /\ env.val # ""
    THEN run_consistent_to_job(run, env.val) = "True"
    ELSE run_consistent_to_job(run, "None") = "True"

\* the checker applied to a run: TRUE when it returns, FALSE when it raises
get_run_checker(env, run) ==
    IF env.set /\ env.val # ""
    THEN run_consistent_to_job(run, env.val) = "True"
    ELSE TRUE

(* ---------------------------- BackoffSleeper --------------------------- *)
\* duration: float = 0.2, in tenths
InitialDuration == 2
\* multiplier: int = 2
Multiplier == 2
\* the values random.random() is drawn from, in tenths (the protocol never
\* reads the sleeper, so one value is followed here)
Jitters == {7}

BackoffSleeper(j) ==
    [jitter |-> j, duration |-> InitialDuration, multiplier |-> Multiplier]

\* mutant: the jitter is multiplied before it is added to the duration
sleep_jitter_first(s) ==
    [s EXCEPT !.jitter = s.jitter * s.multiplier,
              !.duration = (s.duration + s.jitter * s.multiplier) * s.multiplier]

\* the sleeper after sleep() has returned (lines 71-73)
sleep(s) ==
    [s EXCEPT !.duration = (s.duration + s.jitter) * s.multiplier,
              !.jitter = s.jitter * s.multiplier]

(* -------------------------------- state -------------------------------- *)
VARIABLES
    \* the shared world
    pid_file,        \* whether the PID file exists
    owner_alive,     \* whether a process with the owner's pid exists
    completed,       \* the scheduler's state: the ids of the complete jobs
    sig_pending,     \* DUMP_SIGNAL is pending for the owner
    handlers,        \* the stack of running handler invocations
    dumped_run,      \* the file cache_dir / "dumped-run.json"
    run_file,        \* the file cache_dir / RUN_FILE
    \* the requester
    args,            \* args.retries, args.out_file
    env,             \* the environment variable ENV_VAR_JOB_ID
    pc,              \* where the requester is
    sleeper,         \* its BackoffSleeper
    stdout,          \* the texts printed to standard output
    out_file,        \* the file args.out_file names
    exit_status,     \* << >> while running, then << the status passed to sys.exit >>
    \* history
    dumped_fresh,    \* between the requester's signal and its read of
                     \* dumped_run: the file was written by a handler invocation
                     \* that started after that signal (FALSE at other times)
    stats,           \* the requester's counts of what it has done, and what
                     \* the poll of the attempt under way found
    out_writes,      \* writes of the out-file
    outcome,         \* which branch ended the requester
    \* a call of run_consistent_to_job or a BackoffSleeper on their own
    call             \* the call under way: its inputs and what it has given

worldVars == << pid_file, owner_alive, completed, sig_pending, handlers,
                dumped_run, run_file, dumped_fresh >>
exitVars == << stdout, out_file, exit_status, out_writes >>
reqVars == << args, env, call, pc, sleeper, stdout, out_file, exit_status, stats,
              out_writes, outcome >>
vars == << pid_file, owner_alive, completed, sig_pending, handlers,
           dumped_run, run_file, dumped_fresh, args, env, call, pc, sleeper, stdout,
           out_file, exit_status, stats, out_writes, outcome >>

\* the values ENV_VAR_JOB_ID takes: unset, a job of the run, a job that is
\* not in the run
Envs == {NoEnv, Env("B"), Env("Z")}

Init ==
    /\ pid_file \in BOOLEAN
    /\ owner_alive = TRUE
    /\ completed = {}
    /\ sig_pending = FALSE
    /\ handlers = << >>
    \* no dump yet: other requesters' signals may produce one before
    \* dump_run begins
    /\ dumped_run = Absent
    /\ run_file = Absent
    /\ args \in [retries : 0..MaxRetries, out_file : BOOLEAN]
    /\ env \in Envs
    /\ pc = "start"
    /\ sleeper = BackoffSleeper(0)
    /\ stdout = << >>
    /\ out_file = Absent
    /\ exit_status = << >>
    /\ dumped_fresh = FALSE
    /\ stats = [attempts |-> 0, delivered |-> 0, sleeps |-> 0,
                dumped_reads |-> 0, run_reads |-> 0, last_poll |-> "none"]
    /\ out_writes = 0
    /\ outcome = "none"
    /\ call = NoCall

(* ------------------------------ requester ------------------------------ *)
\* history: what a poll of file f finds (lines 166-174): no document
\* (FileNotFoundError, JSONDecodeError), or what check_run gives on it
PollFound(e, f) ==
    IF ~load_file(f).ok THEN "Unavailable"
    ELSE IF e.set /\ e.val # ""
         THEN run_consistent_to_job(load_file(f).value, e.val)
         ELSE "True"

\* the running handler invocations, none of them marked as started after
\* the requester's latest signal
Unmarked == [i \in DOMAIN handlers |-> [handlers[i] EXCEPT !.fresh = FALSE]]

\* mutant: the run is emitted but sys.exit is not called, so the loop goes on
_exit_success_returns(run) ==
    /\ IF args.out_file
       THEN /\ out_file' = File(json_dumps(run))
            /\ out_writes' = out_writes + 1
            /\ stdout' = stdout
       ELSE /\ stdout' = Append(stdout, json_dumps(run))
            /\ UNCHANGED << out_file, out_writes >>
    /\ exit_status' = exit_status
    /\ pc' = "kill"

\* lines 136-142
_exit_success(run) ==
    /\ IF args.out_file
       THEN /\ out_file' = File(json_dumps(run))
            /\ out_writes' = out_writes + 1
            /\ stdout' = stdout
       ELSE /\ stdout' = Append(stdout, json_dumps(run))
            /\ UNCHANGED << out_file, out_writes >>
    /\ exit_status' = << 0 >>
    /\ pc' = "done"

\* lines 145-147
_exit_error ==
    /\ stdout' = Append(stdout, json_dumps(JNull))
    /\ exit_status' = << 0 >>
    /\ pc' = "done"
    /\ UNCHANGED << out_file, out_writes >>

\* mutant: a missing PID file is ignored and the loop is entered
dump_run_begin_ignores_missing ==
    /\ pc = "start"
    /\ \E j \in Jitters : sleeper' = BackoffSleeper(j)
    /\ pc' = "kill"
    /\ UNCHANGED << exitVars, outcome >>
    /\ UNCHANGED << worldVars, args, env, call, stats >>

\* lines 178-189: read the PID file, build the sleeper and the checker
dump_run_begin ==
    /\ pc = "start"
    /\ IF ~pid_file
       THEN /\ _exit_error
            /\ outcome' = "MissingOwner"
            /\ UNCHANGED sleeper
       ELSE /\ \E j \in Jitters : sleeper' = BackoffSleeper(j)
            /\ pc' = "kill"
            /\ UNCHANGED << exitVars, outcome >>
    /\ UNCHANGED << worldVars, args, env, call, stats >>

\* mutant: the signal is sent in the first attempt only, later attempts
\* just poll
try_dump_run_kill_once ==
    /\ pc = "kill"
    /\ args.retries = 0 =>
            stats.attempts < MaxAttempts + (IF owner_alive THEN 0 ELSE 1)
    /\ IF stats.delivered > 0
       THEN /\ stats' = [stats EXCEPT !.attempts = @ + 1, !.last_poll = "none"]
            /\ pc' = "read"
            /\ UNCHANGED << sig_pending, dumped_fresh, handlers >>
       ELSE IF owner_alive
       THEN /\ sig_pending' = TRUE
            /\ dumped_fresh' = FALSE
            /\ handlers' = Unmarked
            /\ stats' = [stats EXCEPT !.attempts = @ + 1, !.delivered = @ + 1,
                                      !.last_poll = "none"]
            /\ pc' = "read"
       ELSE /\ stats' = [stats EXCEPT !.attempts = @ + 1, !.last_poll = "none"]
            /\ pc' = "fallback"
            /\ UNCHANGED << sig_pending, dumped_fresh, handlers >>
    /\ UNCHANGED << pid_file, owner_alive, completed, dumped_run, run_file,
                    args, env, call, sleeper, exitVars, outcome >>

\* mutant: ProcessLookupError is swallowed and the attempt polls
\* dumped-run.json as if the signal had been delivered
try_dump_run_kill_ignores_lookup ==
    /\ pc = "kill"
    /\ args.retries = 0 =>
            stats.attempts < MaxAttempts + (IF owner_alive THEN 0 ELSE 1)
    /\ IF owner_alive
       THEN /\ sig_pending' = TRUE
            /\ dumped_fresh' = FALSE
            /\ handlers' = Unmarked
            /\ stats' = [stats EXCEPT !.attempts = @ + 1, !.delivered = @ + 1,
                                      !.last_poll = "none"]
       ELSE /\ stats' = [stats EXCEPT !.attempts = @ + 1, !.last_poll = "none"]
            /\ UNCHANGED << sig_pending, dumped_fresh, handlers >>
    /\ pc' = "read"
    /\ UNCHANGED << pid_file, owner_alive, completed, dumped_run, run_file,
                    args, env, call, sleeper, exitVars, outcome >>

\* lines 191-196 and 151-154: the next attempt starts with os.kill; a
\* delivered signal makes every earlier dump older than the notification.
\* MaxAttempts caps the attempts of the unbounded loop against a live owner;
\* the attempt that finds the owner gone is never held back
try_dump_run_kill ==
    /\ pc = "kill"
    /\ args.retries = 0 =>
            stats.attempts < MaxAttempts + (IF owner_alive THEN 0 ELSE 1)
    /\ IF owner_alive
       THEN /\ sig_pending' = TRUE
            /\ dumped_fresh' = FALSE
            /\ handlers' = Unmarked
            /\ stats' = [stats EXCEPT !.attempts = @ + 1, !.delivered = @ + 1,
                                      !.last_poll = "none"]
            /\ pc' = "read"
       ELSE /\ stats' = [stats EXCEPT !.attempts = @ + 1, !.last_poll = "none"]
            /\ pc' = "fallback"
            /\ UNCHANGED << sig_pending, dumped_fresh, handlers >>
    /\ UNCHANGED << pid_file, owner_alive, completed, dumped_run, run_file,
                    args, env, call, sleeper, exitVars, outcome >>

\* mutant: the latest run file is printed without check_run
try_dump_run_fallback_unchecked ==
    /\ pc = "fallback"
    /\ LET latest == load_file(run_file)
       IN IF latest.ok
          THEN _exit_success(latest.value) /\ outcome' = "Persisted"
          ELSE _exit_error /\ outcome' = "ProcessNotFound"
    /\ stats' = [stats EXCEPT !.run_reads = @ + 1]
    /\ UNCHANGED << worldVars, args, env, call, sleeper >>

\* mutant: an unusable run file is treated like an unusable dump: sleep and
\* try again
try_dump_run_fallback_retries ==
    /\ pc = "fallback"
    /\ LET latest == load_file(run_file)
       IN IF latest.ok /\ get_run_checker(env, latest.value)
          THEN _exit_success(latest.value) /\ outcome' = "Persisted"
          ELSE pc' = "sleep" /\ UNCHANGED << exitVars, outcome >>
    /\ stats' = [stats EXCEPT !.run_reads = @ + 1]
    /\ UNCHANGED << worldVars, args, env, call, sleeper >>

\* lines 155-165: the owner is gone, print the latest run file or null
try_dump_run_fallback ==
    /\ pc = "fallback"
    /\ LET latest == load_file(run_file)
       IN IF latest.ok /\ get_run_checker(env, latest.value)
          THEN _exit_success(latest.value) /\ outcome' = "Persisted"
          ELSE _exit_error /\ outcome' = "ProcessNotFound"
    /\ stats' = [stats EXCEPT !.run_reads = @ + 1]
    /\ UNCHANGED << worldVars, args, env, call, sleeper >>

\* mutant: sleeper.sleep() runs after every poll, the successful one too
try_dump_run_read_sleeps_always ==
    /\ pc = "read"
    /\ LET run == load_file(dumped_run)
       IN IF run.ok /\ get_run_checker(env, run.value)
          THEN /\ _exit_success(run.value) /\ outcome' = "Dumped"
               /\ sleeper' = sleep(sleeper)
               /\ stats' = [stats EXCEPT !.dumped_reads = @ + 1, !.sleeps = @ + 1,
                                         !.last_poll = PollFound(env, dumped_run)]
               /\ UNCHANGED << handlers, dumped_fresh >>
          ELSE /\ pc' = "sleep" /\ UNCHANGED << exitVars, outcome, sleeper >>
               /\ stats' = [stats EXCEPT !.dumped_reads = @ + 1,
                                         !.last_poll = PollFound(env, dumped_run)]
               /\ handlers' = Unmarked /\ dumped_fresh' = FALSE
    /\ UNCHANGED << pid_file, owner_alive, completed, sig_pending, dumped_run,
                    run_file, args, env, call >>

\* mutant: the earlier variant, which deleted dumped-run.json after a
\* successful read
try_dump_run_read_deletes ==
    /\ pc = "read"
    /\ LET run == load_file(dumped_run)
       IN IF run.ok /\ get_run_checker(env, run.value)
          THEN /\ _exit_success(run.value) /\ outcome' = "Dumped"
               /\ dumped_run' = Absent
               /\ UNCHANGED << handlers, dumped_fresh >>
          ELSE /\ pc' = "sleep" /\ UNCHANGED << exitVars, outcome >>
               /\ dumped_run' = dumped_run
               /\ handlers' = Unmarked /\ dumped_fresh' = FALSE
    /\ stats' = [stats EXCEPT !.dumped_reads = @ + 1,
                              !.last_poll = PollFound(env, dumped_run)]
    /\ UNCHANGED << pid_file, owner_alive, completed, sig_pending, run_file,
                    args, env, call, sleeper >>

\* mutant: a run that lacks the job is taken as broken for good: null is
\* printed and the requester ends
try_dump_run_read_notfound_ends ==
    /\ pc = "read"
    /\ LET run == load_file(dumped_run)
       IN IF run.ok /\ get_run_checker(env, run.value)
          THEN /\ _exit_success(run.value) /\ outcome' = "Dumped"
               /\ UNCHANGED << handlers, dumped_fresh >>
          ELSE IF PollFound(env, dumped_run) = "JobNotFound"
          THEN /\ _exit_error /\ outcome' = "Exhausted"
               /\ UNCHANGED << handlers, dumped_fresh >>
          ELSE /\ pc' = "sleep" /\ UNCHANGED << exitVars, outcome >>
               /\ handlers' = Unmarked /\ dumped_fresh' = FALSE
    /\ stats' = [stats EXCEPT !.dumped_reads = @ + 1,
                              !.last_poll = PollFound(env, dumped_run)]
    /\ UNCHANGED << pid_file, owner_alive, completed, sig_pending, dumped_run,
                    run_file, args, env, call, sleeper >>

\* lines 166-174 up to the call of sleeper.sleep()
try_dump_run_read ==
    /\ pc = "read"
    /\ LET run == load_file(dumped_run)
       IN IF run.ok /\ get_run_checker(env, run.value)
          THEN /\ _exit_success(run.value) /\ outcome' = "Dumped"
               /\ UNCHANGED << handlers, dumped_fresh >>
          ELSE /\ pc' = "sleep" /\ UNCHANGED << exitVars, outcome >>
               /\ handlers' = Unmarked /\ dumped_fresh' = FALSE
    /\ stats' = [stats EXCEPT !.dumped_reads = @ + 1,
                              !.last_poll = PollFound(env, dumped_run)]
    /\ UNCHANGED << pid_file, owner_alive, completed, sig_pending, dumped_run,
                    run_file, args, env, call, sleeper >>

\* mutant: the loop makes one attempt more than args.retries
try_dump_run_sleep_extra_attempt ==
    /\ pc = "sleep"
    /\ sleeper' = sleep(sleeper)
    /\ stats' = [stats EXCEPT !.sleeps = @ + 1]
    /\ IF args.retries # 0 /\ stats.attempts = args.retries + 1
       THEN _exit_error /\ outcome' = "Exhausted"
       ELSE pc' = "kill" /\ UNCHANGED << exitVars, outcome >>
    /\ UNCHANGED << worldVars, args, env, call >>

\* mutant: retries = 0 is not told apart, the loop is range(args.retries)
\* entered once
try_dump_run_sleep_zero_is_bound ==
    /\ pc = "sleep"
    /\ sleeper' = sleep(sleeper)
    /\ stats' = [stats EXCEPT !.sleeps = @ + 1]
    /\ IF stats.attempts >= args.retries
       THEN _exit_error /\ outcome' = "Exhausted"
       ELSE pc' = "kill" /\ UNCHANGED << exitVars, outcome >>
    /\ UNCHANGED << worldVars, args, env, call >>

\* line 174 (sleep() returns), then the loop of lines 191-197
try_dump_run_sleep ==
    /\ pc = "sleep"
    /\ sleeper' = sleep(sleeper)
    /\ stats' = [stats EXCEPT !.sleeps = @ + 1]
    /\ IF args.retries # 0 /\ stats.attempts = args.retries
       THEN _exit_error /\ outcome' = "Exhausted"
       ELSE pc' = "kill" /\ UNCHANGED << exitVars, outcome >>
    /\ UNCHANGED << worldVars, args, env, call >>

(* -------------------------------- owner -------------------------------- *)
\* lib.litani.atomic_write on leaving the with block: the temporary file,
\* flushed and closed, is renamed over the path
atomic_write_rename(tmp) == File(tmp)

Top == handlers[Len(handlers)]
Pop == SubSeq(handlers, 1, Len(handlers) - 1)

\* the scheduler marks a job complete
scheduler_complete(j) ==
    /\ pc # "done"
    /\ owner_alive
    /\ j \in Completable
    /\ j \notin completed
    /\ completed' = completed \cup {j}
    /\ UNCHANGED << pid_file, owner_alive, sig_pending, handlers, dumped_run,
                    run_file, dumped_fresh, reqVars >>

\* line 152 in another requester: one more notification for the owner (a
\* signal that is already pending is not delivered twice)
other_requester_kill ==
    /\ pc # "done"
    /\ pid_file
    /\ owner_alive
    /\ ~sig_pending
    /\ sig_pending' = TRUE
    /\ UNCHANGED << pid_file, owner_alive, completed, handlers, dumped_run,
                    run_file, dumped_fresh, reqVars >>

\* lines 208-211: the pending signal is taken, the handler starts, reads the
\* run data and opens the temporary file; it may interrupt a running handler
handler_call ==
    /\ pc # "done"
    /\ owner_alive
    /\ sig_pending
    /\ Len(handlers) < MaxNesting
    /\ sig_pending' = FALSE
    /\ handlers' = Append(handlers, [run |-> get_run_data(completed),
                                     tmp |-> << >>, fresh |-> pc = "read"])
    /\ UNCHANGED << pid_file, owner_alive, completed, dumped_run, run_file,
                    dumped_fresh, reqVars >>

\* mutant: the handler writes into dumped-run.json itself, not into a
\* temporary file
handler_write_in_place ==
    /\ pc # "done"
    /\ owner_alive
    /\ handlers # << >>
    /\ Len(Top.tmp) < NChunks
    /\ LET text == Append(Top.tmp, json_dumps(Top.run)[Len(Top.tmp) + 1])
       IN /\ handlers' = [handlers EXCEPT ![Len(handlers)].tmp = text]
          /\ dumped_run' = File(text)
    /\ UNCHANGED << pid_file, owner_alive, completed, sig_pending, run_file,
                    dumped_fresh, reqVars >>

\* line 212: the innermost handler prints the next piece of the text
handler_write ==
    /\ pc # "done"
    /\ owner_alive
    /\ handlers # << >>
    /\ Len(Top.tmp) < NChunks
    /\ handlers' = [handlers EXCEPT ![Len(handlers)].tmp =
                        Append(@, json_dumps(Top.run)[Len(Top.tmp) + 1])]
    /\ UNCHANGED << pid_file, owner_alive, completed, sig_pending, dumped_run,
                    run_file, dumped_fresh, reqVars >>

\* lines 210-212, the end of the with block: the file is replaced and the
\* handler returns
handler_return ==
    /\ pc # "done"
    /\ owner_alive
    /\ handlers # << >>
    /\ Len(Top.tmp) = NChunks
    /\ dumped_run' = atomic_write_rename(Top.tmp)
    /\ dumped_fresh' = Top.fresh
    /\ handlers' = Pop
    /\ UNCHANGED << pid_file, owner_alive, completed, sig_pending, run_file,
                    reqVars >>

\* what the owner may leave in RUN_FILE as it finalizes: nothing new, the
\* run, or a text cut short
PersistedChoices ==
    LET text == json_dumps(get_run_data(completed))
    IN {run_file, File(text), File(SubSeq(text, 1, NChunks - 1))}

\* the owner process ends; its memory and its handlers end with it
owner_exit ==
    /\ pc # "done"
    /\ owner_alive
    /\ owner_alive' = FALSE
    /\ completed' = {}
    /\ handlers' = << >>
    /\ sig_pending' = FALSE
    /\ run_file' \in PersistedChoices
    /\ UNCHANGED << pid_file, dumped_run, dumped_fresh, reqVars >>

Next ==
    \/ dump_run_begin
    \/ try_dump_run_kill
    \/ try_dump_run_fallback
    \/ try_dump_run_read
    \/ try_dump_run_sleep
    \/ \E j \in JobIds : scheduler_complete(j)
    \/ other_requester_kill
    \/ handler_call
    \/ handler_write
    \/ handler_return
    \/ owner_exit

Spec == Init /\ [][Next]_vars

\* the steps of the requester; pc enables one of them at a time
RequesterNext ==
    \/ dump_run_begin
    \/ try_dump_run_kill
    \/ try_dump_run_fallback
    \/ try_dump_run_read
    \/ try_dump_run_sleep

\* the requester is a running process: the statement it is at is executed,
\* and every sleep returns.  Only its steps after the owner's exit are
\* required, which are the steps the owner's exit has to lead to the end
RequesterFairness == WF_vars(~owner_alive /\ RequesterNext)

LiveSpec == Init /\ [][Next]_vars /\ RequesterFairness

(* -------------------- run_consistent_to_job on its own ----------------- *)
\* the most jobs a run under check has
MaxJobs == 3

\* job ids are unique in a run (wrapper_arguments.job_id): the i-th job
\* scanned is named JobNames[i]
JobNames == << "A", "B", "C", "D", "E" >>

\* an id no job of a run has
NotInRun == "Z"

\* wrapper_arguments.inputs: null, or an input nobody produces followed by
\* two that jobs may produce
InputChoices == {JNull, JList(<< "src", "x", "y" >>)}

\* wrapper_arguments.outputs: null or one output
OutputChoices == {JNull, JList(<< "x" >>), JList(<< "y" >>)}

\* the lists of n jobs, in the order they are to be scanned
JobLists(n) ==
    {[i \in 1..n |-> Job(JobNames[i], f[i].inputs, f[i].outputs, f[i].complete)] :
        f \in [1..n -> [inputs : InputChoices, outputs : OutputChoices,
                        complete : BOOLEAN]]}

\* how the jobs are spread over the run: all in one stage, one stage each
\* in one pipeline, or one pipeline each
Layouts == {"stage", "stages", "pipelines"}

\* the run document: pipelines, their ci_stages, their jobs
Arrange(jobs, layout) ==
    IF layout = "stage"
    THEN [pipelines |-> << [ci_stages |-> << [jobs |-> jobs] >>] >>]
    ELSE IF layout = "stages"
    THEN [pipelines |->
            << [ci_stages |-> [i \in DOMAIN jobs |-> [jobs |-> << jobs[i] >>]]] >>]
    ELSE [pipelines |->
            [i \in DOMAIN jobs |-> [ci_stages |-> << [jobs |-> << jobs[i] >>] >>]]]

\* a call check(run, job_id) that has not returned yet
CheckCall(jobs, layout, job_id) ==
    [op |-> "check", jobs |-> jobs, layout |-> layout,
     run |-> Arrange(jobs, layout), job_id |-> job_id, result |-> << >>]

\* the protocol is not running: nothing of it moves
ProtocolIdle ==
    /\ pid_file = FALSE
    /\ owner_alive = FALSE
    /\ completed = {}
    /\ sig_pending = FALSE
    /\ handlers = << >>
    /\ dumped_run = Absent
    /\ run_file = Absent
    /\ args = [retries |-> 0, out_file |-> FALSE]
    /\ env = NoEnv
    /\ pc = "idle"
    /\ sleeper = BackoffSleeper(0)
    /\ stdout = << >>
    /\ out_file = Absent
    /\ exit_status = << >>
    /\ dumped_fresh = FALSE
    /\ stats = [attempts |-> 0, delivered |-> 0, sleeps |-> 0,
                dumped_reads |-> 0, run_reads |-> 0, last_poll |-> "none"]
    /\ out_writes = 0
    /\ outcome = "none"

protocolVars == << pid_file, owner_alive, completed, sig_pending, handlers,
                   dumped_run, run_file, dumped_fresh, args, env, pc, sleeper,
                   stdout, out_file, exit_status, stats, out_writes, outcome >>

CheckInit ==
    /\ ProtocolIdle
    /\ \E n \in 0..MaxJobs :
        \E jobs \in JobLists(n), layout \in Layouts,
           job_id \in {JobNames[i] : i \in 1..n} \cup {NotInRun} :
            call = CheckCall(jobs, layout, job_id)

\* lines 82-121: the call returns True or raises InconsistentRunError
check_call ==
    /\ call.op = "check"
    /\ call.result = << >>
    /\ call' = [call EXCEPT !.result = << run_consistent_to_job(call.run, call.job_id) >>]
    /\ UNCHANGED protocolVars

CheckNext == check_call

CheckSpec == CheckInit /\ [][CheckNext]_vars

(* ------------------------ BackoffSleeper on its own -------------------- *)
\* the most calls of sleep() followed
MaxSleeps == 3
\* the largest jitter a sleeper is built with, in tenths (random.random()
\* is below 1)
MaxJitter == 9
\* the largest duration a sleeper is built with, in tenths
MaxDuration == 4

\* the multipliers a sleeper is built with: the default and one more
Multipliers == {Multiplier, Multiplier + 1}

\* a sleeper as constructed, the sleeper as it is now, and the time each
\* call of sleep() has blocked for
SleeperCall(s) == [op |-> "sleeper", start |-> s, s |-> s, slept |-> << >>]

SleeperInit ==
    /\ ProtocolIdle
    /\ \E j \in 0..MaxJitter, d \in 0..MaxDuration, m \in Multipliers :
        call = SleeperCall([jitter |-> j, duration |-> d, multiplier |-> m])

\* lines 68-73: time.sleep(self.duration), then the update
sleep_call ==
    /\ call.op = "sleeper"
    /\ Len(call.slept) < MaxSleeps
    /\ call' = [call EXCEPT !.slept = Append(@, call.s.duration),
                            !.s = sleep(call.s)]
    /\ UNCHANGED protocolVars

SleeperNext == sleep_call

SleeperSpec == SleeperInit /\ [][SleeperNext]_vars

(* ------------------------------- claims -------------------------------- *)
NullText == json_dumps(JNull)

\* the requester has ended
Done == pc = "done"

\* the run documents the requester has emitted, to stdout or to the out-file
EmittedRuns ==
    {json_load(stdout[i]).value : i \in {k \in DOMAIN stdout : stdout[k] # NullText}}
    \cup (IF out_file.exists THEN {json_load(out_file.data).value} ELSE {})

\* the JSON nulls the requester has printed
NullsPrinted == Cardinality({k \in DOMAIN stdout : stdout[k] = NullText})

Range(f) == {f[i] : i \in DOMAIN f}

Max(S) == CHOOSE m \in S : \A n \in S : n <= m

\* C1: a dumped snapshot the requester emits was written by a handler
\* invocation that started after the requester's latest delivered
\* notification (the requester never emits an older dumped-run.json).
C1_NoStaleSnapshot ==
    (Done /\ outcome = "Dumped") => dumped_fresh

\* the gate for job X, stated on the document: X is a job of the run, and
\* every input of X that some job declares as an output has its recorded
\* (last scanned) owner complete
GateHolds(run, X) ==
    LET jobs == ScanOrder(run)
        targets == {i \in DOMAIN jobs : jobs[i].wrapper_arguments.job_id = X}
        producers(input) ==
            {i \in DOMAIN jobs :
                input \in Range(OrEmpty(jobs[i].wrapper_arguments.outputs))}
    IN /\ targets # {}
       /\ \A input \in Range(OrEmpty(jobs[Max(targets)].wrapper_arguments.inputs)) :
            producers(input) # {} => jobs[Max(producers(input))].complete

\* C2: every run document emitted while ENV_VAR_JOB_ID names job X passes
\* the gate for X, on the live-owner path and on the fallback path alike.
C2_EmittedPassesGate ==
    (env.set /\ env.val # "") => \A run \in EmittedRuns : GateHolds(run, env.val)

\* a run was emitted from the dumped snapshot, inside job B, after more
\* than one attempt
C2_Witness ==
    /\ Done /\ outcome = "Dumped" /\ env = Env("B")
    /\ stats.attempts > 1
    /\ EmittedRuns # {}

\* C3: the requester ends with status 0 in every case, having printed
\* exactly one JSON null (PID file absent, owner gone with no usable run
\* file, retries exhausted) or emitted exactly one run document; nothing is
\* emitted before it ends, so no action follows the emission.
C3_OneResultStatusZero ==
    /\ exit_status \in {<< >>, << 0 >>}
    /\ ~Done =>
        /\ exit_status = << >>
        /\ stdout = << >> /\ ~out_file.exists /\ out_writes = 0
    /\ Done =>
        /\ exit_status = << 0 >>
        /\ \/ /\ outcome \in {"MissingOwner", "ProcessNotFound", "Exhausted"}
              /\ stdout = << NullText >>
              /\ ~out_file.exists /\ out_writes = 0
           \/ /\ outcome \in {"Dumped", "Persisted"}
              /\ NullsPrinted = 0
              /\ Cardinality(EmittedRuns) = 1
              /\ Len(stdout) + out_writes = 1

\* the retries are exhausted and the requester has ended
C3_Witness ==
    Done /\ outcome = "Exhausted" /\ exit_status = << 0 >> /\ stdout = << NullText >>

OwnerAliveNeverUsable ==
    /\ pid_file
    /\ stats.delivered = stats.attempts
    /\ outcome # "Dumped"

\* C5: with retries = N > 0, an owner that stays alive and never yields a
\* usable snapshot makes the requester end after exactly N attempts, N
\* delivered notifications and N sleeps, printing null; it never starts an
\* attempt beyond the N-th.
C5_ExactlyNAttempts ==
    args.retries > 0 =>
        /\ stats.attempts <= args.retries
        /\ (Done /\ OwnerAliveNeverUsable) =>
            /\ outcome = "Exhausted"
            /\ stats.attempts = args.retries
            /\ stats.delivered = args.retries
            /\ stats.dumped_reads = args.retries
            /\ stats.sleeps = args.retries
            /\ stdout = << NullText >>

\* the largest retry count was used up against a live owner
C5_Witness ==
    /\ Done /\ args.retries = MaxRetries /\ OwnerAliveNeverUsable
    /\ owner_alive
    /\ stats.sleeps = MaxRetries

\* C6: with retries = 0 the requester never gives up while the owner
\* exists: it prints null only for a missing PID file or a missing owner
\* process, and after a failed poll it always goes on to the next attempt.
C6_UnboundedRetries ==
    /\ [](args.retries = 0 =>
            /\ outcome # "Exhausted"
            /\ (Done /\ NullsPrinted > 0) =>
                    (~pid_file \/ stats.attempts = stats.delivered + 1))
    /\ [][(args.retries = 0 /\ pc = "sleep") => pc' \in {"sleep", "kill"}]_vars

\* with retries = 0 a snapshot was emitted on a later attempt than any
\* bounded run of the model makes
C6_Witness ==
    /\ Done /\ args.retries = 0 /\ outcome = "Dumped"
    /\ stats.attempts > MaxRetries
    /\ stats.sleeps = stats.attempts - 1

\* C7: when the dumped snapshot is first usable at the k-th poll, the
\* requester emits exactly the document that poll read, after k - 1 sleeps
\* (none when k = 1).  The world is not followed past the requester's end,
\* so dumped_run is then the file as the last poll read it.
C7_EmitsPollK ==
    (Done /\ outcome = "Dumped") =>
        /\ stats.dumped_reads = stats.attempts
        /\ stats.delivered = stats.attempts
        /\ stats.sleeps = stats.dumped_reads - 1
        /\ args.retries # 0 => stats.dumped_reads <= args.retries
        /\ load_file(dumped_run).ok
        /\ EmittedRuns = {load_file(dumped_run).value}
        /\ NullsPrinted = 0

\* the snapshot became usable at the second poll
C7_Witness ==
    /\ Done /\ outcome = "Dumped"
    /\ stats.dumped_reads = 2 /\ stats.sleeps = 1
    /\ env = Env("B")

\* the snapshot was usable at the first poll
C7_WitnessFirstPoll ==
    Done /\ outcome = "Dumped" /\ stats.dumped_reads = 1 /\ stats.sleeps = 0

\* the attempt under way found no process with the owner's id
DeliveryFailed == stats.attempts = stats.delivered + 1

\* RUN_FILE exists, parses and passes the gate
RunFileUsable ==
    /\ load_file(run_file).ok
    /\ get_run_checker(env, load_file(run_file).value)

\* C8: an attempt whose delivery fails with process-not-found ends the
\* requester in that attempt: no sleep and no read of dumped-run.json in
\* it, no attempt after it, one read of RUN_FILE; the persisted run is
\* emitted if it exists, parses and passes the gate, and null otherwise.
C8_DeadOwnerEndsAttempt ==
    /\ [](/\ stats.attempts \in {stats.delivered, stats.delivered + 1}
          /\ DeliveryFailed <=> pc = "fallback" \/ outcome \in {"Persisted", "ProcessNotFound"}
          /\ DeliveryFailed =>
                /\ ~owner_alive
                /\ stats.sleeps = stats.delivered
                /\ stats.dumped_reads = stats.delivered
                /\ stats.run_reads = IF Done THEN 1 ELSE 0
                /\ Done =>
                    IF RunFileUsable
                    THEN /\ outcome = "Persisted"
                         /\ EmittedRuns = {load_file(run_file).value}
                         /\ NullsPrinted = 0
                    ELSE /\ outcome = "ProcessNotFound"
                         /\ stdout = << NullText >>
                         /\ EmittedRuns = {})
    /\ [][pc = "fallback" => pc' \in {"fallback", "done"}]_vars

\* the owner ended during polling and left a run file cut short: null
C8_Witness ==
    /\ Done /\ outcome = "ProcessNotFound"
    /\ stats.delivered >= 1
    /\ run_file.exists

\* the owner ended and its persisted run was emitted inside job B
C8_WitnessPersisted ==
    Done /\ outcome = "Persisted" /\ env = Env("B")

\* a step of the requester (each one counts something or moves pc)
RequesterStep == pc' # pc \/ stats' # stats

\* C9: the requester never writes, replaces or deletes dumped-run.json or
\* RUN_FILE; it writes the out-file at most once, only to emit a run
\* document, and never for a null result.
C9_RequesterWritesOnlyOutFile ==
    /\ [][RequesterStep => dumped_run' = dumped_run /\ run_file' = run_file]_vars
    /\ [](/\ out_writes \in {0, 1}
          /\ out_file.exists <=> out_writes = 1
          /\ out_writes = 1 =>
                /\ args.out_file
                /\ outcome \in {"Dumped", "Persisted"}
                /\ load_file(out_file).ok
                /\ stdout = << >>
          /\ NullsPrinted > 0 => out_writes = 0)

\* a run document was written to the out-file and dumped-run.json is
\* still there
C9_Witness ==
    /\ Done /\ out_writes = 1 /\ out_file.exists
    /\ outcome = "Dumped"
    /\ dumped_run.exists

\* C10: when the PID file is absent dump_run prints null and ends at once:
\* no notification is delivered to any process, no file of the cache
\* directory is read and no sleep occurs, whatever args.retries is.
C10_MissingOwnerImmediate ==
    ~pid_file =>
        /\ pc \in {"start", "done"}
        /\ stats = [attempts |-> 0, delivered |-> 0, sleeps |-> 0,
                    dumped_reads |-> 0, run_reads |-> 0, last_poll |-> "none"]
        /\ ~sig_pending /\ handlers = << >> /\ ~dumped_run.exists
        /\ Done =>
            /\ outcome = "MissingOwner"
            /\ stdout = << NullText >>
            /\ exit_status = << 0 >>
            /\ out_writes = 0

\* null was printed for a missing PID file although retries were asked for
C10_Witness ==
    /\ ~pid_file /\ Done /\ args.retries = MaxRetries
    /\ stdout = << NullText >>

(* --------------------- claims on run_consistent_to_job ----------------- *)
\* the call check(run, job_id) has ended
Called == call.op = "check" /\ call.result # << >>

\* True, or the condition it failed with
Result == call.result[1]

Id(job) == job.wrapper_arguments.job_id
Ins(job) == Range(OrEmpty(job.wrapper_arguments.inputs))
Outs(job) == Range(OrEmpty(job.wrapper_arguments.outputs))

\* the places, in scan order, of the jobs that declare output o
Declarers(o) == {i \in DOMAIN call.jobs : o \in Outs(call.jobs[i])}

\* the places of the job the check is for (none, or one: ids are unique)
Targets == {i \in DOMAIN call.jobs : Id(call.jobs[i]) = call.job_id}

\* C11, as stated: if a job A that declares output x is complete and a job
\* B that declares input x is not complete, check(run, B) fails with
\* Inconsistent.
C11_CompleteProducerFails ==
    Called =>
        \A a, b \in DOMAIN call.jobs :
            ( /\ a # b
              /\ "x" \in Outs(call.jobs[a]) /\ call.jobs[a].complete
              /\ "x" \in Ins(call.jobs[b]) /\ ~call.jobs[b].complete
              /\ call.job_id = Id(call.jobs[b]) )
            => Result = "Inconsistent"

\* C11, amended: if job A, the only job that declares output x, is NOT
\* complete and job B declares input x and is not complete, check(run, B)
\* fails with Inconsistent.
C11_IncompleteProducerFails ==
    Called =>
        \A a, b \in DOMAIN call.jobs :
            ( /\ a # b
              /\ Declarers("x") = {a} /\ ~call.jobs[a].complete
              /\ "x" \in Ins(call.jobs[b]) /\ ~call.jobs[b].complete
              /\ call.job_id = Id(call.jobs[b]) )
            => Result = "Inconsistent"

\* the run of jobs A and B alone, A producing x and not complete, B
\* consuming x, and the check for B has failed
C11_Witness ==
    /\ Called /\ Len(call.jobs) = 2 /\ call.job_id = "B"
    /\ Declarers("x") = {1} /\ Declarers("y") = {}
    /\ ~call.jobs[1].complete /\ ~call.jobs[2].complete
    /\ "x" \in Ins(call.jobs[2])
    /\ Result = "Inconsistent"

\* the jobs with the complete flag of the i-th one turned over
FlipComplete(jobs, i) == [jobs EXCEPT ![i].complete = ~@]

\* the job at place t is the recorded owner of none of its inputs
NotOwnProducer(t) ==
    \A input \in Ins(call.jobs[t]) :
        Declarers(input) # {} => Max(Declarers(input)) # t

C13_UnknownJobNotFound ==
    Called => (Targets = {} <=> Result = "JobNotFound")

\* the check for an id outside the run failed with JobNotFound although no
\* job of the run is complete and one declares an output
C13_Witness ==
    /\ Called /\ call.job_id = NotInRun /\ Result = "JobNotFound"
    /\ Len(call.jobs) = MaxJobs
    /\ \A i \in DOMAIN call.jobs : ~call.jobs[i].complete
    /\ Declarers("x") # {}

\* the identifiers declared as outputs by two or more jobs
SharedOutputs == {o \in {"x", "y"} : Cardinality(Declarers(o)) >= 2}

\* C14: an output declared by two or more jobs does not make the check fail
\* by itself, and the flag used for it is the one of the declaring job
\* scanned last: for a target that consumes it, the check fails with
\* Inconsistent if that job is not complete, whatever the flags of the
\* earlier declaring jobs, and succeeds if it is complete and the target's
\* other produced inputs have complete owners.
C14_LastDeclarerDecides ==
    Called =>
        \A t \in Targets : \A o \in SharedOutputs \cap Ins(call.jobs[t]) :
            /\ ~call.jobs[Max(Declarers(o))].complete => Result = "Inconsistent"
            /\ ( /\ call.jobs[Max(Declarers(o))].complete
                 /\ \A input \in Ins(call.jobs[t]) \ {o} :
                        Declarers(input) # {} =>
                            call.jobs[Max(Declarers(input))].complete )
               => Result = "True"

\* x is declared by an incomplete job and then, in a later pipeline, by a
\* complete one; the check for the consumer of x succeeded
C14_Witness ==
    /\ Called /\ Result = "True"
    /\ Len(call.jobs) = 3 /\ call.layout = "pipelines" /\ call.job_id = "C"
    /\ Declarers("x") = {1, 2}
    /\ ~call.jobs[1].complete /\ call.jobs[2].complete
    /\ "x" \in Ins(call.jobs[3])

\* x is declared by a complete job and then by an incomplete one; the check
\* for the consumer of x failed
C14_WitnessLastIncomplete ==
    /\ Called /\ Result = "Inconsistent"
    /\ Len(call.jobs) = 3 /\ call.job_id = "C"
    /\ Declarers("x") = {1, 2} /\ Declarers("y") = {}
    /\ call.jobs[1].complete /\ ~call.jobs[2].complete
    /\ "x" \in Ins(call.jobs[3])

\* the identifiers no job of the run declares as an output
Unproduced == {"src", "lib", "x", "y"} \ UNION {Outs(call.jobs[i]) : i \in DOMAIN call.jobs}

\* the jobs with the inputs of the t-th one replaced
WithInputs(jobs, t, ins) == [jobs EXCEPT ![t].wrapper_arguments.inputs = ins]

\* a sequence without its elements equal to x
RECURSIVE Without(_, _)
Without(s, x) ==
    IF s = << >> THEN << >>
    ELSE IF Head(s) = x THEN Without(Tail(s), x)
                        ELSE << Head(s) >> \o Without(Tail(s), x)

C15_WitnessFails ==
    /\ Called /\ Result = "Inconsistent"
    /\ "src" \in Unproduced
    /\ \E t \in Targets : "src" \in Ins(call.jobs[t])

(* ------------------------- claims on BackoffSleeper -------------------- *)
\* C16: each sleep() blocks for the duration held before the call and then
\* sets duration to (duration + jitter) * multiplier and jitter to
\* jitter * multiplier, with the jitter from before the call; from duration
\* d, jitter j and multiplier 2 the sleeper is ((d + j) * 2, j * 2) after
\* one call and (((d + j) * 2 + 2j) * 2, 4j) after two.
C16_SleepLaw ==
    /\ [][ /\ call'.slept = Append(call.slept, call.s.duration)
           /\ call'.s.duration = (call.s.duration + call.s.jitter) * call.s.multiplier
           /\ call'.s.jitter = call.s.jitter * call.s.multiplier
           /\ call'.s.multiplier = call.s.multiplier ]_vars
    /\ [](LET d == call.start.duration
              j == call.start.jitter
              n == Len(call.slept)
          IN call.start.multiplier = 2 =>
                /\ n = 0 => call.s = call.start
                /\ n = 1 =>
                    /\ call.slept = << d >>
                    /\ call.s.duration = (d + j) * 2
                    /\ call.s.jitter = j * 2
                /\ n = 2 =>
                    /\ call.slept = << d, (d + j) * 2 >>
                    /\ call.s.duration = ((d + j) * 2 + 2 * j) * 2
                    /\ call.s.jitter = 4 * j)

\* the default sleeper (0.2, multiplier 2) with jitter 0.7 after two calls:
\* it slept 0.2 and 1.8 and holds duration 6.4
C16_Witness ==
    /\ call.start = [jitter |-> 7, duration |-> InitialDuration, multiplier |-> Multiplier]
    /\ call.slept = << 2, 18 >>
    /\ call.s.duration = 64 /\ call.s.jitter = 28

(* ----------------------- claims on the gate in polls ------------------- *)
\* C17: when ENV_VAR_JOB_ID is unset the gate always passes: a poll that
\* finds a document in dumped-run.json emits that document and ends the
\* requester without a sleep, and the fallback emits the persisted run
\* whenever RUN_FILE holds a document, whatever the jobs and flags in it;
\* the requester sleeps, or prints null for a dead owner, only when the file
\* is missing or does not parse.
C17_NoEnvNoGate ==
    /\ [][(env = NoEnv /\ pc = "read" /\ pc' # "read") =>
            IF load_file(dumped_run).ok
            THEN /\ pc' = "done" /\ outcome' = "Dumped"
                 /\ EmittedRuns' = {load_file(dumped_run).value}
                 /\ NullsPrinted' = 0
                 /\ stats'.sleeps = stats.sleeps
            ELSE pc' = "sleep"]_vars
    /\ [][(env = NoEnv /\ pc = "fallback" /\ pc' # "fallback") =>
            IF load_file(run_file).ok
            THEN /\ outcome' = "Persisted"
                 /\ EmittedRuns' = {load_file(run_file).value}
                 /\ NullsPrinted' = 0
            ELSE outcome' = "ProcessNotFound" /\ NullsPrinted' = 1]_vars
    /\ []((env = NoEnv /\ pc = "sleep") => stats.last_poll = "Unavailable")

\* with the variable unset the first poll emitted a snapshot in which no job
\* is complete (the gate for job B rejects it)
C17_Witness ==
    /\ Done /\ env = NoEnv /\ outcome = "Dumped"
    /\ stats.attempts = 1 /\ stats.sleeps = 0
    /\ EmittedRuns = {get_run_data({})}
    /\ run_consistent_to_job(get_run_data({}), "B") = "Inconsistent"

\* with the variable unset the persisted run of a dead owner was emitted
C17_WitnessPersisted ==
    /\ Done /\ env = NoEnv /\ outcome = "Persisted"
    /\ EmittedRuns = {get_run_data({})}

\* what the poll found is no usable snapshot
NotUsable == {"Unavailable", "JobNotFound", "Inconsistent"}

\* C18: with the owner alive, a snapshot that fails the gate, by JobNotFound
\* or by Inconsistent, is handled as a missing or unparsable one is: the
\* poll emits nothing and changes no file, the requester sleeps once and
\* goes on to the next attempt, and it ends after such a poll only when the
\* attempt was the last of args.retries > 0.
C18_GateFailureIsRetry ==
    /\ [][(pc = "read" /\ pc' # "read" /\ PollFound(env, dumped_run) \in NotUsable) =>
            /\ pc' = "sleep"
            /\ stats'.last_poll = PollFound(env, dumped_run)
            /\ UNCHANGED << stdout, out_file, out_writes, exit_status, outcome,
                            dumped_run, run_file, sleeper >>
            /\ stats'.sleeps = stats.sleeps]_vars
    /\ [][(pc = "sleep" /\ pc' # "sleep") =>
            /\ stats'.sleeps = stats.sleeps + 1
            /\ stats'.attempts = stats.attempts
            /\ IF args.retries # 0 /\ stats.attempts = args.retries
               THEN pc' = "done" /\ outcome' = "Exhausted"
               ELSE pc' = "kill" /\ UNCHANGED << stdout, out_file, exit_status >>]_vars
    /\ [](/\ pc = "sleep" =>
                /\ stats.last_poll \in NotUsable
                /\ stats.sleeps = stats.dumped_reads - 1
          /\ (pc = "kill" /\ stats.attempts > 0) =>
                /\ stats.last_poll \in NotUsable
                /\ stats.sleeps = stats.dumped_reads)

\* the poll found a snapshot with an incomplete producer; the requester has
\* slept and is about to start its next attempt
C18_Witness ==
    /\ pc = "kill" /\ owner_alive
    /\ stats.last_poll = "Inconsistent"
    /\ stats.sleeps = stats.attempts /\ stats.attempts >= 1
    /\ stdout = << >> /\ ~out_file.exists

\* the same for a snapshot that lacks the designated job, with retries = 0
C18_WitnessJobNotFound ==
    /\ pc = "kill" /\ owner_alive /\ args.retries = 0
    /\ stats.last_poll = "JobNotFound"
    /\ stats.sleeps = 2 /\ stats.attempts = 2

\* the same for a missing snapshot
C18_WitnessUnavailable ==
    /\ pc = "kill" /\ owner_alive
    /\ stats.last_poll = "Unavailable"
    /\ stats.sleeps = stats.attempts /\ stats.attempts >= 1

(* ------------------- claims on notifications and the owner's exit ------ *)
\* the attempt under way, or the last one, found no process to notify
FailedDelivery == IF pc = "fallback" \/ outcome \in {"Persisted", "ProcessNotFound"}
                  THEN 1 ELSE 0

\* C19: every attempt starts with one os.kill, before any file of the cache
\* directory is read in it: the attempts started are the notifications
\* delivered plus the one delivery that found no process; dumped-run.json is
\* read in attempt k only after the k-th notification was delivered (it is
\* then pending or taken by the handler); RUN_FILE is read only in the
\* attempt whose delivery found no process, and once.
C19_OneNotificationPerAttempt ==
    /\ [](stats.attempts = stats.delivered + FailedDelivery)
    /\ [][stats'.attempts # stats.attempts =>
            /\ stats'.attempts = stats.attempts + 1
            /\ stats.dumped_reads = stats.attempts /\ stats.run_reads = 0
            /\ IF owner_alive
               THEN stats'.delivered = stats.delivered + 1 /\ sig_pending'
               ELSE stats'.delivered = stats.delivered /\ pc' = "fallback"]_vars
    /\ [][stats'.dumped_reads # stats.dumped_reads =>
            /\ pc = "read"
            /\ stats'.dumped_reads = stats.dumped_reads + 1
            /\ stats.delivered = stats.attempts
            /\ stats.dumped_reads = stats.delivered - 1]_vars
    /\ [][stats'.run_reads # stats.run_reads =>
            /\ pc = "fallback" /\ ~owner_alive
            /\ stats.run_reads = 0 /\ stats'.run_reads = 1
            /\ stats.attempts = stats.delivered + 1
            /\ stats.dumped_reads = stats.delivered]_vars

\* the second attempt has delivered its notification, which is still
\* pending, and has not read dumped-run.json yet
C19_Witness ==
    /\ pc = "read" /\ sig_pending
    /\ stats.attempts = 2 /\ stats.delivered = 2
    /\ stats.dumped_reads = 1 /\ stats.run_reads = 0

\* RUN_FILE was read in the third attempt, after two delivered notifications
C19_WitnessFallback ==
    /\ Done /\ stats.run_reads = 1
    /\ stats.attempts = 3 /\ stats.delivered = 2 /\ stats.dumped_reads = 2

\* C20: once the owner process has exited, the requester starts at most one
\* more attempt, and that attempt ends it with the persisted run or null,
\* after one sleep for each earlier attempt; so a requester whose owner
\* exits terminates, with retries = 0 too, given that each sleep returns.
C20_OwnerExitEndsRequester ==
    /\ (~owner_alive ~> Done)
    /\ [][(~owner_alive /\ stats'.attempts # stats.attempts) => pc' = "fallback"]_vars
    /\ [][(pc = "fallback" /\ pc' # "fallback") =>
            /\ pc' = "done"
            /\ outcome' \in {"Persisted", "ProcessNotFound"}
            /\ stats'.sleeps = stats.attempts - 1
            /\ stats'.attempts = stats.attempts]_vars
    /\ []((Done /\ outcome \in {"Persisted", "ProcessNotFound"}) =>
            /\ ~owner_alive
            /\ stats.sleeps = stats.attempts - 1
            /\ Cardinality(EmittedRuns) + NullsPrinted = 1)

\* with retries = 0 the owner exited after MaxAttempts failed polls and the
\* requester ended in the attempt after them
C20_Witness ==
    /\ Done /\ args.retries = 0 /\ ~owner_alive
    /\ outcome \in {"Persisted", "ProcessNotFound"}
    /\ stats.attempts = MaxAttempts + 1 /\ stats.sleeps = MaxAttempts

====
